---- MODULE Spec2Model ----
(***************************************************************************)
(* go-ts-segmenter: the driver (main.go) and the pipeline it feeds.        *)
(*                                                                         *)
(* main parses the flags, validates them, builds the uploaders and the     *)
(* manifest generator, opens the input (stdin or a TCP socket) behind a    *)
(* bufio.Reader and then loops: read up to readBufferSize bytes, hand them *)
(* to mg.AddData, and on end-of-stream call mg.Close and exit.             *)
(*                                                                         *)
(* The packages manifestgenerator, hls and mediachunk are not part of the  *)
(* source tree at hand; their behaviour (packet slicing, chunk closing,    *)
(* manifest window) is modelled from the specification document.           *)
(*                                                                         *)
(* Bytes of the input stream are identified by their offset in the stream, *)
(* so a byte slice is the half-open range [from, to) of offsets.           *)
(***************************************************************************)
EXTENDS Integers, Sequences, FiniteSets, TLC

\* ------------------------------------------------------------------ bounds
\* Largest live window size the stream runs are configured with.
MaxWindow == 3
\* Most bytes the input delivers in a stream run (five transport packets).
MaxStream == 940
\* Most bytes the input delivers in a flag-variation run.
SmallStream == 200

\* --------------------------------------------------------------- constants
readBufferSize == 128

\* manifestgenerator.ChunkInitTypes (flag help of -initType).
ChunkNoIni == 0
ChunkInit == 1
ChunkInitStart == 2

\* hls.ManifestTypes (flag help of -manifestType).
Vod == 0
LiveEvent == 1
LiveWindow == 2

\* Size of one transport-stream packet.
PacketSize == 188

\* Byte counts one read of the underlying input (os.Stdin, net.Conn) returns.
ReadSizes == {0, 60, 188, 376}
\* Errors a read reports: none, io.EOF, any other error.
ReadErrs == {"nil", "EOF", "ERR"}

VARIABLES
    pc,                      \* position of main
    exitCode,                \* process exit code, -1 while running
    \* flags
    autoPID, videoPID, audioPID, chunkInitType,
    mediaDestinationType, manifestDestinationType,
    manifestTypeInt, liveWindowSize, fileNumberLength,
    \* locals of main
    httpUploader, s3Uploader,    \* TRUE when the pointer is non-nil
    mg,                          \* the manifest generator (pipeline)
    \* the input and the bufio.Reader r in front of it
    srcMax,                  \* bytes the input can deliver in this run
    srcState,                \* "open", "eof" (the input has returned io.EOF)
                             \* or "failed" (it has returned another error)
    bufR, bufW,              \* stream offsets: handed to main / read from input
    bErr                     \* error the bufio.Reader holds back (b.err)

flags == <<autoPID, videoPID, audioPID, chunkInitType, mediaDestinationType,
           manifestDestinationType, manifestTypeInt, liveWindowSize,
           fileNumberLength>>
rdr == <<srcMax, srcState, bufR, bufW, bErr>>
vars == <<pc, exitCode, flags, httpUploader, s3Uploader, mg, rdr>>

Min(a, b) == IF a < b THEN a ELSE b

\* ------------------------------------------------- pipeline (spec-modelled)

\* The pipeline before manifestgenerator.New has run.
NoMg ==
    [created |-> FALSE,
     chunkOutputType |-> 0, hlsOutputType |-> 0, chunkInitType |-> 0,
     autoPID |-> TRUE, videoPID |-> -1, audioPID |-> -1,
     manifestType |-> 0, liveWindowSize |-> 0,
     httpUploader |-> FALSE, s3Uploader |-> FALSE,
     rx |-> <<>>, pktFill |-> 0,
     curSeq |-> 0, curPkts |-> 0, open |-> TRUE,
     closed |-> <<>>, entries |-> <<>>, mseq |-> 0, terminated |-> FALSE,
     nClose |-> 0, lateAdds |-> 0]

\* The byte sequence received so far, kept as maximal runs of consecutive
\* stream offsets: appending [from, to) extends the last run when it starts
\* where that run ends and starts a new run otherwise.
AppendBytes(rx, slice) ==
    IF slice.to = slice.from THEN rx
    ELSE IF rx # <<>> /\ rx[Len(rx)].to = slice.from
         THEN [rx EXCEPT ![Len(rx)].to = slice.to]
         ELSE Append(rx, slice)

\* Sequence number of the chunk opened after chunk seq closes.
NextSeqStuck(seq) == seq
NextSeq(seq) == seq + 1

\* ManifestEngine.append: add the closed chunk; a full live window first
\* evicts its oldest entry and advances the media sequence number.
ManifestAppend(p, seq) ==
    IF p.manifestType = LiveWindow /\ Len(p.entries) >= p.liveWindowSize
    THEN [p EXCEPT !.entries = Append(Tail(p.entries), seq),
                   !.mseq = p.mseq + 1]
    ELSE [p EXCEPT !.entries = Append(p.entries, seq)]

\* ChunkBuilder closing the open chunk: emit it, index it, open the next.
CloseChunk(p, how) ==
    LET chunk == [seq |-> p.curSeq, pkts |-> p.curPkts, by |-> how]
        q == ManifestAppend(p, p.curSeq)
    IN [q EXCEPT !.closed = Append(p.closed, chunk),
                 !.curSeq = NextSeq(p.curSeq),
                 !.curPkts = 0]

\* ChunkBuilder.accept: a boundary packet closes a non-empty open chunk and
\* becomes the first packet of the next one.
AcceptPacket(p, boundary) ==
    LET q == IF boundary /\ p.curPkts > 0 THEN CloseChunk(p, "boundary") ELSE p
    IN [q EXCEPT !.curPkts = q.curPkts + 1]

RECURSIVE AcceptPackets(_, _)
AcceptPackets(p, bnds) ==
    IF bnds = <<>> THEN p
    ELSE AcceptPackets(AcceptPacket(p, Head(bnds)), Tail(bnds))

\* mg.AddData(slice): the PacketReader buffers the partial tail and hands
\* every completed packet to the ChunkBuilder; bnds[i] tells whether the
\* i-th completed packet is a chunk boundary (unit start, span reached).
AddData(p, slice, bnds) ==
    IF ~p.open THEN [p EXCEPT !.lateAdds = p.lateAdds + 1]
    ELSE LET n == slice.to - slice.from
             q == [p EXCEPT !.rx = AppendBytes(p.rx, slice),
                            !.pktFill = (p.pktFill + n) % PacketSize]
         IN AcceptPackets(q, bnds)

\* Packets completed by n more bytes.
PacketsIn(p, n) == (p.pktFill + n) \div PacketSize

\* mg.Close(): final flush of the open chunk (even if short), no further
\* chunk opens, and the manifest is terminated unless it is a live window.
Close(p) ==
    LET q == IF p.open /\ p.curPkts > 0 THEN CloseChunk(p, "flush") ELSE p
    IN [q EXCEPT !.open = FALSE,
                 !.terminated = (p.manifestType \in {Vod, LiveEvent}),
                 !.nClose = p.nClose + 1]

\* ------------------------------------------------------------------ driver

\* main.go:66 - the condition under which startup exits.
ValidationRejects == autoPID = FALSE /\ chunkInitType # ChunkNoIni

isHTTPOut ==
    \/ mediaDestinationType = 2
    \/ mediaDestinationType = 3
    \/ manifestDestinationType = 2

isS3Out ==
    \/ mediaDestinationType = 4
    \/ manifestDestinationType = 3

\* main.go:95-111 with the window argument taken from -maxChunks.
MgNewMaxChunks ==
    [NoMg EXCEPT !.created = TRUE,
                 !.chunkOutputType = mediaDestinationType,
                 !.hlsOutputType = manifestDestinationType,
                 !.chunkInitType = chunkInitType,
                 !.autoPID = autoPID,
                 !.videoPID = -1,
                 !.audioPID = -1,
                 !.manifestType = manifestTypeInt,
                 !.liveWindowSize = fileNumberLength,
                 !.httpUploader = httpUploader,
                 !.s3Uploader = s3Uploader]

\* main.go:95-111 - manifestgenerator.New with the arguments main passes.
MgNew ==
    [NoMg EXCEPT !.created = TRUE,
                 !.chunkOutputType = mediaDestinationType,
                 !.hlsOutputType = manifestDestinationType,
                 !.chunkInitType = chunkInitType,
                 !.autoPID = autoPID,
                 !.videoPID = -1,
                 !.audioPID = -1,
                 !.manifestType = manifestTypeInt,
                 !.liveWindowSize = liveWindowSize,
                 !.httpUploader = httpUploader,
                 !.s3Uploader = s3Uploader]

\* State of the underlying input after a read of it that reported e.
AfterRead(e) ==
    IF e = "EOF" THEN "eof" ELSE IF e = "ERR" THEN "failed" ELSE srcState

\* r.Read(buf[:cap(buf)]) of the bufio.Reader, given what the underlying
\* input returns (k bytes and error e) should the reader have to ask it.
\* The reader's own buffer is larger than buf, so it always reads into its
\* buffer first; a held-back error is returned, and cleared, once the
\* buffer is drained.
rRead(k, e) ==
    IF bufR = bufW
    THEN IF bErr # "nil"
         THEN [n |-> 0, err |-> bErr, bufR |-> bufR, bufW |-> bufW,
               bErr |-> "nil", src |-> srcState]
         ELSE IF k = 0
              THEN [n |-> 0, err |-> e, bufR |-> bufR, bufW |-> bufW,
                    bErr |-> "nil", src |-> AfterRead(e)]
              ELSE [n |-> Min(readBufferSize, k), err |-> "nil",
                    bufR |-> bufR + Min(readBufferSize, k), bufW |-> bufW + k,
                    bErr |-> e, src |-> AfterRead(e)]
    ELSE [n |-> Min(readBufferSize, bufW - bufR), err |-> "nil",
          bufR |-> bufR + Min(readBufferSize, bufW - bufR), bufW |-> bufW,
          bErr |-> bErr, src |-> srcState]

\* What the underlying input may return: within the run's byte budget, and
\* only io.EOF with no bytes once it has reported io.EOF.
SourceReturns(k, e) ==
    /\ k \in ReadSizes
    /\ e \in ReadErrs
    /\ bufW + k <= srcMax
    /\ srcState = "eof" => (k = 0 /\ e = "EOF")

\* Loop body with every error taken as fatal.
LoopBranchAnyErrFatal(n, err) ==
    IF err # "nil" THEN "fatal" ELSE "add"

\* Loop body with the end-of-stream test reduced to n == 0.
LoopBranchZeroIsEOF(n, err) ==
    IF n = 0 THEN "close" ELSE "add"

\* main.go:136-153 - which branch of the loop body a read result takes.
LoopBranch(n, err) ==
    IF n = 0 /\ err = "EOF" THEN "close"
    ELSE IF err # "nil" /\ err # "EOF" THEN "fatal"
    ELSE "add"

\* buf[:cap(buf)] handed on instead of buf[:n].
DataSliceWholeBuf(from, n) == [from |-> from, to |-> from + readBufferSize]

\* main.go:153 - buf[:n], the n bytes just read, which start at offset from.
DataSlice(from, n) == [from |-> from, to |-> from + n]

\* ----------------------------------------------------------------- actions

\* main.go:59-64 - flag.Parse and configureLogger; the logger exits with -1
\* when the log file cannot be opened.
Start ==
    /\ pc = "start"
    /\ \E logOK \in BOOLEAN :
          IF logOK
          THEN pc' = "validate" /\ exitCode' = exitCode
          ELSE pc' = "done" /\ exitCode' = 255
    /\ UNCHANGED <<flags, httpUploader, s3Uploader, mg, rdr>>

\* main.go:66-69
Validate ==
    /\ pc = "validate"
    /\ IF ValidationRejects
       THEN pc' = "done" /\ exitCode' = 1
       ELSE pc' = "uploaders" /\ exitCode' = exitCode
    /\ UNCHANGED <<flags, httpUploader, s3Uploader, mg, rdr>>

\* main.go:71-93
CreateUploaders ==
    /\ pc = "uploaders"
    /\ IF isHTTPOut
       THEN httpUploader' = TRUE /\ s3Uploader' = FALSE
       ELSE IF isS3Out
            THEN httpUploader' = FALSE /\ s3Uploader' = TRUE
            ELSE httpUploader' = FALSE /\ s3Uploader' = FALSE
    /\ pc' = "new"
    /\ UNCHANGED <<exitCode, flags, mg, rdr>>

\* main.go:95-111
NewPipeline ==
    /\ pc = "new"
    /\ mg' = MgNew
    /\ pc' = "input"
    /\ UNCHANGED <<exitCode, flags, httpUploader, s3Uploader, rdr>>

\* main.go:113-132 - the input reader. With -inputType 2 the errors of
\* net.Listen and Accept are dropped, so a failed listen or accept ends in
\* a nil dereference (exit code 2) before any byte is read.
OpenInput ==
    /\ pc = "input"
    /\ \E inputType \in {1, 2}, netOK \in BOOLEAN :
          IF inputType = 2 /\ ~netOK
          THEN pc' = "done" /\ exitCode' = 2
          ELSE pc' = "loop" /\ exitCode' = exitCode
    /\ UNCHANGED <<flags, httpUploader, s3Uploader, mg, rdr>>

ReaderStep(res) ==
    /\ bufR' = res.bufR
    /\ bufW' = res.bufW
    /\ bErr' = res.bErr
    /\ srcState' = res.src
    /\ srcMax' = srcMax

\* main.go:135-143 - end of stream: Close, leave the loop, os.Exit(0).
ReadEOF ==
    /\ pc = "loop"
    /\ \E k \in ReadSizes, e \in ReadErrs :
          /\ SourceReturns(k, e)
          /\ LET res == rRead(k, e) IN
                /\ LoopBranch(res.n, res.err) = "close"
                /\ ReaderStep(res)
                /\ mg' = Close(mg)
    /\ pc' = "done"
    /\ exitCode' = 0
    /\ UNCHANGED <<flags, httpUploader, s3Uploader>>

\* main.go:145-149 - read error: log.Fatal exits with code 1.
ReadError ==
    /\ pc = "loop"
    /\ \E k \in ReadSizes, e \in ReadErrs :
          /\ SourceReturns(k, e)
          /\ LET res == rRead(k, e) IN
                /\ LoopBranch(res.n, res.err) = "fatal"
                /\ ReaderStep(res)
    /\ pc' = "done"
    /\ exitCode' = 1
    /\ UNCHANGED <<flags, httpUploader, s3Uploader, mg>>

\* main.go:151-153 - hand the bytes read to the pipeline and loop.
ReadData ==
    /\ pc = "loop"
    /\ \E k \in ReadSizes, e \in ReadErrs :
          /\ SourceReturns(k, e)
          /\ LET res == rRead(k, e)
                 slice == DataSlice(bufR, res.n)
                 np == IF mg.open THEN PacketsIn(mg, slice.to - slice.from) ELSE 0
             IN /\ LoopBranch(res.n, res.err) = "add"
                /\ ReaderStep(res)
                /\ \E bnds \in [1..np -> BOOLEAN] :
                      mg' = AddData(mg, slice, bnds)
    /\ UNCHANGED <<pc, exitCode, flags, httpUploader, s3Uploader>>

Next ==
    \/ Start
    \/ Validate
    \/ CreateUploaders
    \/ NewPipeline
    \/ OpenInput
    \/ ReadEOF
    \/ ReadError
    \/ ReadData

\* State shared by every run at process start.
InitCommon ==
    /\ pc = "start"
    /\ exitCode = -1
    /\ httpUploader = FALSE
    /\ s3Uploader = FALSE
    /\ mg = NoMg
    /\ srcState = "open"
    /\ bufR = 0
    /\ bufW = 0
    /\ bErr = "nil"
    /\ fileNumberLength = 5

\* Runs that vary the PID, init-data and destination flags (short input).
InitFlags ==
    /\ autoPID \in BOOLEAN
    /\ videoPID \in {-1, 256}
    /\ audioPID \in {-1, 257}
    /\ chunkInitType \in {ChunkNoIni, ChunkInit, ChunkInitStart}
    /\ mediaDestinationType \in 0..4
    /\ manifestDestinationType \in 0..3
    /\ manifestTypeInt = LiveWindow
    /\ liveWindowSize = 3
    /\ srcMax = SmallStream

\* Runs that vary the manifest type and window size (long input); the other
\* flags keep their defaults.
InitStream ==
    /\ autoPID = TRUE
    /\ videoPID = -1
    /\ audioPID = -1
    /\ chunkInitType = ChunkInitStart
    /\ mediaDestinationType = 1
    /\ manifestDestinationType = 1
    /\ manifestTypeInt \in {Vod, LiveEvent, LiveWindow}
    /\ liveWindowSize \in 1..MaxWindow
    /\ srcMax = MaxStream

Init == InitCommon /\ (InitFlags \/ InitStream)

Spec == Init /\ [][Next]_vars

\* main is a running process: it keeps taking steps until it exits.
FairSpec == Init /\ [][Next]_vars /\ WF_vars(Next)

\* ------------------------------------------------------------ observations

\* The driver's read has returned io.EOF: the input reported it and the
\* reader is no longer holding it back.
EofDelivered == srcState = "eof" /\ bErr # "EOF"

\* The driver's read has returned an error other than io.EOF.
ErrDelivered == srcState = "failed" /\ bErr # "ERR"

\* The process has exited on the startup validation (main.go:68).
ExitedOnValidation == pc = "done" /\ exitCode = 1 /\ ~mg.created

\* ------------------------------------------------------------------ claims

\* C1: with manual PID mode and the "no init data" policy the process exits
\* non-zero at startup, before the pipeline is built and before any byte is
\* read.
C1_ManualNoInitRejected ==
    (autoPID = FALSE /\ chunkInitType = ChunkNoIni) =>
        \/ pc \in {"start", "validate"}
        \/ pc = "done" /\ exitCode # 0 /\ ~mg.created /\ bufW = 0

\* C2 as stated: after a read error other than end-of-stream the pipeline
\* has been closed (final flush) and the process has exited non-zero.
C2_ReadErrorClosesPipeline ==
    ErrDelivered => pc = "done" /\ exitCode # 0 /\ mg.nClose >= 1

\* C2 as the code has it: after a read error other than end-of-stream the
\* process has exited with a non-zero code and Close was never invoked.
C2_ReadErrorExitsWithoutClose ==
    ErrDelivered => pc = "done" /\ exitCode # 0 /\ mg.nClose = 0

\* A read error arrived after data, leaving an open chunk that is not flushed.
C2_Witness ==
    /\ ErrDelivered
    /\ pc = "done"
    /\ mg.curPkts > 0
    /\ mg.open

\* C3: Close is invoked at most once and AddData never after it; once the
\* driver has seen end-of-stream it has closed the pipeline exactly once and
\* exited with code 0; and once the input returns end-of-stream the process
\* eventually exits.
C3_Safety ==
    /\ mg.nClose <= 1
    /\ mg.lateAdds = 0
    /\ EofDelivered => pc = "done" /\ exitCode = 0 /\ mg.nClose = 1

C3_EofShutdown == [](C3_Safety) /\ ((srcState = "eof") ~> (pc = "done"))

\* A run that read 376 bytes, saw end-of-stream, closed once and exited 0.
C3_Witness ==
    /\ pc = "done"
    /\ exitCode = 0
    /\ mg.nClose = 1
    /\ bufR = 376

C5_TerminatedIffEofAndNotWindow ==
    mg.terminated <=> (EofDelivered /\ manifestTypeInt \in {Vod, LiveEvent})

\* A live-event manifest terminated by the final flush, and not before.
C5_Witness ==
    /\ mg.terminated
    /\ manifestTypeInt = LiveEvent
    /\ Len(mg.closed) >= 2

\* C6: the chunks closed so far carry the sequence numbers 0, 1, ..., N-1 in
\* emission order.
C6_ChunkNumbering ==
    \A i \in 1..Len(mg.closed) : mg.closed[i].seq = i - 1

\* Two chunks closed at boundaries and a final one closed by the flush.
C6_Witness ==
    /\ pc = "done"
    /\ Len(mg.closed) = 3
    /\ mg.closed[1].by = "boundary"
    /\ mg.closed[3].by = "flush"

\* C7: in manual PID mode the pipeline is built with the video and audio
\* PIDs given by -vpid and -apid.
C7_ManualPIDsPassed ==
    (mg.created /\ autoPID = FALSE) =>
        mg.videoPID = videoPID /\ mg.audioPID = audioPID

\* C8: the bytes handed to AddData are exactly the bytes the driver's reads
\* have returned, each once and in stream order, none after Close; and when
\* Close is invoked every byte the input delivered has been handed on.
C8_OrderedLosslessIngest ==
    /\ mg.rx = (IF bufR = 0 THEN <<>> ELSE <<[from |-> 0, to |-> bufR]>>)
    /\ mg.lateAdds = 0
    /\ mg.nClose > 0 => bufR = bufW

\* 376 bytes delivered by the input were all fed, in order, before Close.
C8_Witness ==
    /\ mg.nClose = 1
    /\ bufW = 376
    /\ mg.rx = <<[from |-> 0, to |-> 376]>>

\* C9: startup validation rejects nothing but manual PID mode with the "no
\* init data" policy.
C9_OnlyManualNoInitRejected ==
    (autoPID = TRUE \/ chunkInitType # ChunkNoIni) => ~ExitedOnValidation

\* C10: the pipeline is built with every uploader its destinations need.
C10_UploadersAvailable ==
    mg.created =>
        /\ (mediaDestinationType \in {2, 3} \/ manifestDestinationType = 2)
              => mg.httpUploader
        /\ (mediaDestinationType = 4 \/ manifestDestinationType = 3)
              => mg.s3Uploader

====
